---- MODULE Spec2Model ----
(***************************************************************************)
(* YokeFlow: the quality-metrics recalculation script                      *)
(* (scripts/recalculate_quality_metrics.py) and the agent client's tool    *)
(* hooks (core/client_playwright_docker.py).                               *)
(*                                                                         *)
(* Spec      runs of recalculate_session_metrics one after another         *)
(* SpecConc  runs of recalculate_session_metrics interleaving              *)
(* SpecHooks create_client and the PreToolUse hook chain of its client     *)
(***************************************************************************)
EXTENDS Integers, Sequences, FiniteSets, TLC

\* ------------------------------------------------------------------ bounds
NumSessions == 2
MaxLogLen == 1

\* ------------------------------------------------- the project's sessions
\* rows of the sessions table for the project, ORDER BY session_number
Sessions == 1..NumSessions

SessionsTable ==
  [s \in Sessions |->
     [id |-> s, session_number |-> s,
      type |-> IF s = 1 THEN "initializer" ELSE "coding"]]

\* the script's processes
Runs == {"run1", "run2"}

\* ------------------------------------------------------- session log files
EntryKinds == {"Bash_error", "browser_navigate", "browser_take_screenshot"}

RECURSIVE SeqsUpTo(_, _)
SeqsUpTo(S, n) ==
  IF n = 0 THEN {<<>>}
  ELSE LET shorter == SeqsUpTo(S, n - 1)
       IN  shorter \cup {Append(q, x) : q \in {t \in shorter : Len(t) = n - 1}, x \in S}

\* generations/<project>/logs/session_NNN_*.jsonl: absent, or a file of entries
LogFiles ==
  {[exists |-> FALSE, entries |-> <<>>]}
    \cup {[exists |-> TRUE, entries |-> e] : e \in SeqsUpTo(EntryKinds, MaxLogLen)}

RECURSIVE CountIn(_, _)
CountIn(entries, kinds) ==
  IF entries = <<>> THEN 0
  ELSE (IF Head(entries) \in kinds THEN 1 ELSE 0) + CountIn(Tail(entries), kinds)

\* review.review_metrics.analyze_session_logs: counts over the log's entries;
\* error_rate is kept in whole percent
analyze_session_logs(entries) ==
  LET total == Len(entries)
      errs  == CountIn(entries, {"Bash_error"})
  IN  [total_tool_uses |-> total,
       playwright_count |-> CountIn(entries, {"browser_navigate", "browser_take_screenshot"}),
       playwright_screenshot_count |-> CountIn(entries, {"browser_take_screenshot"}),
       error_count |-> errs,
       error_rate |-> IF total = 0 THEN 0 ELSE (errs * 100) \div total]

CriticalMarker == "cross_mark"
WarningMarker == "warning_sign"

\* review.review_metrics.quick_quality_check: the ordered findings
quick_quality_check(metrics, is_initializer) ==
  (IF ~is_initializer /\ metrics.playwright_count = 0
     THEN <<[marker |-> CriticalMarker, text |-> "no browser verification"]>> ELSE <<>>)
  \o (IF metrics.error_rate > 10
     THEN <<[marker |-> CriticalMarker, text |-> "high error rate"]>> ELSE <<>>)
  \o (IF metrics.playwright_count > 0 /\ metrics.playwright_screenshot_count = 0
     THEN <<[marker |-> WarningMarker, text |-> "no screenshots"]>> ELSE <<>>)

\* review.review_metrics.get_quality_rating: 0..10, falling with missing
\* verification and with the error rate
get_quality_rating(metrics) ==
  LET raw == 10 - (IF metrics.playwright_count = 0 THEN 4 ELSE 0)
                - (IF metrics.playwright_count > 0 /\ metrics.playwright_screenshot_count = 0
                     THEN 1 ELSE 0)
                - (metrics.error_rate \div 20)
  IN  IF raw < 0 THEN 0 ELSE raw

\* a prefix test that every finding passes
StartsWithAnything(i, marker) == TRUE

\* i.startswith(marker)
StartsWith(i, marker) == i.marker = marker

\* [i for i in issues if i.startswith(marker)]
FilterIssues(issues, marker) == SelectSeq(issues, LAMBDA i : StartsWith(i, marker))

\* json.dumps(v): the JSON text of a value
json_dumps(v) == [json_text_of |-> v]

\* $n::jsonb: the jsonb value a JSON text parses to
ToJsonb(t) == t.json_text_of

\* ------------------------------------------------------ the database rows
\* sessions.metrics: SQL NULL, or a JSON object held as a set of <<key, value>>
SqlNullJson == [null |-> TRUE, obj |-> {}]

JsonObject(pairs) == [null |-> FALSE, obj |-> pairs]

\* jsonb_set(target, '{key}', value): strict, NULL in gives NULL out; the key
\* is replaced, or created when missing
jsonb_set(target, key, value) ==
  IF target.null THEN target
  ELSE JsonObject({p \in target.obj : p[1] # key} \cup {<<key, value>>})

\* the value under a key of a jsonb object; -1 when there is none
JsonGet(target, key) ==
  IF target.null \/ ~(\E p \in target.obj : p[1] = key) THEN -1
  ELSE (CHOOSE p \in target.obj : p[1] = key)[2]

\* a session_quality_checks row left by an earlier version of the scoring
StaleRow(s) ==
  [id |-> s, session_id |-> s, check_version |-> "0.9",
   overall_rating |-> 3, playwright_count |-> 5, playwright_screenshot_count |-> 4,
   total_tool_uses |-> 9, error_count |-> 2, error_rate |-> 22,
   critical_issues |-> <<>>, warnings |-> <<>>,
   metrics |-> [total_tool_uses |-> 9, playwright_count |-> 5,
                playwright_screenshot_count |-> 4, error_count |-> 2, error_rate |-> 22]]

\* what the database holds for session s before a run: a session never scored,
\* its metrics column NULL or an empty object, or a session scored by an
\* earlier pass that left its row and its browser_verifications
PriorDb(s) ==
  {[rows |-> <<>>, metrics |-> SqlNullJson],
   [rows |-> <<>>, metrics |-> JsonObject({})],
   [rows |-> <<StaleRow(s)>>,
    metrics |-> JsonObject({<<"browser_verifications", StaleRow(s).playwright_count>>})]}

VARIABLES
  logs,           \* logs[s]: the log file of session s
  qc,             \* qc[s]: the session_quality_checks rows with session_id = s
  sessMetrics,    \* sessMetrics[s]: sessions.metrics of session s
  nextId,         \* the serial of session_quality_checks.id
  uniqueSid,      \* whether the table carries a UNIQUE(session_id) constraint
  pc,             \* pc[r]: where run r stands
  idx,            \* idx[r]: position of run r in its fetched sessions list
  cur,            \* cur[r]: the loop body's locals of run r
  written,        \* written[r]: sessions whose quality row run r has written
  propagated,     \* propagated[r]: sessions whose sessions.metrics run r has set
  warned,         \* warned[r]: sessions run r logged a warning for
  snapshot,       \* snapshot[s]: the fields stored by the first write for s
  environ,        \* os.environ of the agent process
  dotenv,         \* the agent's own .env file
  mcpBuilt,       \* whether mcp-task-manager/dist/index.js exists
  client,         \* the client create_client returned, or how it failed
  inv,            \* the tool invocation in the hook chain
  hookPos,        \* the next PreToolUse entry to consider for it
  ran,            \* the hooks that have run on it, in order
  decision,       \* the chain's decision on it
  deniedBy,       \* the hook that denied it
  executed,       \* what the executor ran for it
  lastCall        \* the arguments and the environment of the last create_client call

recalcVars ==
  <<logs, qc, sessMetrics, nextId, uniqueSid, pc, idx, cur, written, propagated,
    warned, snapshot>>

hookVars ==
  <<environ, dotenv, mcpBuilt, client, inv, hookPos, ran, decision, deniedBy, executed,
    lastCall>>

vars == <<recalcVars, hookVars>>

NoLocals == [set |-> FALSE]

NoSnapshot == [taken |-> FALSE]

\* the SessionMetrics fields of a stored row
Fields(row) ==
  [taken |-> TRUE,
   overall_rating |-> row.overall_rating,
   playwright_count |-> row.playwright_count,
   playwright_screenshot_count |-> row.playwright_screenshot_count,
   total_tool_uses |-> row.total_tool_uses,
   error_count |-> row.error_count,
   error_rate |-> row.error_rate,
   critical_issues |-> row.critical_issues,
   warnings |-> row.warnings]

Terminal == {"done", "notfound", "failed", "killed"}

Active == {"loop", "write", "propagate"}

RecalcInit ==
  /\ logs \in [Sessions -> LogFiles]
  /\ \E prior \in [Sessions -> UNION {PriorDb(s) : s \in Sessions}] :
       /\ \A s \in Sessions : prior[s] \in PriorDb(s)
       /\ qc = [s \in Sessions |-> prior[s].rows]
       /\ sessMetrics = [s \in Sessions |-> prior[s].metrics]
  /\ nextId = NumSessions + 1
  /\ pc = [r \in Runs |-> "idle"]
  /\ idx = [r \in Runs |-> 0]
  /\ cur = [r \in Runs |-> NoLocals]
  /\ written = [r \in Runs |-> {}]
  /\ propagated = [r \in Runs |-> {}]
  /\ warned = [r \in Runs |-> {}]
  /\ snapshot = [s \in Sessions |-> NoSnapshot]

\* ------------------------------------------ create_client and its hooks
\* an environment variable that is not set (os.getenv gives None)
Unset == "<unset>"

\* Python truthiness of an os.getenv result or of an optional str argument
Truthy(v) == v \notin {Unset, ""}

EnvKeys == {"ANTHROPIC_API_KEY", "CLAUDE_CODE_OAUTH_TOKEN", "DATABASE_URL"}

\* the pop left out: the variable stays as it was
environ_pop_omitted(env, key) == env

\* os.environ.pop(key, None)
environ_pop(env, key) == [env EXCEPT ![key] = Unset]

\* load_dotenv(dotenv_path=...): sets the file's variables that the process
\* does not have yet, never overriding one it has
load_dotenv(env, file) ==
  [k \in EnvKeys |-> IF env[k] = Unset THEN file[k] ELSE env[k]]

\* lines 19-55: the task-manager server's environment; "ValueError" without
\* a DATABASE_URL
get_mcp_env(env, project_id, docker_container) ==
  IF ~Truthy(env["DATABASE_URL"]) THEN [raised |-> "ValueError"]
  ELSE [raised |-> "none",
        DATABASE_URL |-> env["DATABASE_URL"],
        PROJECT_ID |-> IF ~Truthy(project_id) THEN "uuid5(project_dir.name)" ELSE project_id,
        DOCKER_CONTAINER_NAME |-> IF Truthy(docker_container) THEN docker_container ELSE Unset]

\* the external Playwright MCP server added whatever the arguments
AddsExternalPlaywrightAlways(docker_container, use_docker_playwright) == TRUE

\* lines 129-143: whether the external Playwright MCP server is added
AddsExternalPlaywright(docker_container, use_docker_playwright) ==
  ~(Truthy(docker_container) /\ use_docker_playwright)

\* lines 120-143: the names of the configured MCP servers
McpServers(docker_container, use_docker_playwright) ==
  {"task-manager"}
    \cup (IF AddsExternalPlaywright(docker_container, use_docker_playwright)
            THEN {"playwright"} ELSE {})

\* lines 156-168: the environment handed to the SDK subprocess
SdkEnv(oauth_token) ==
  [CLAUDE_CODE_OAUTH_TOKEN |-> IF Truthy(oauth_token) THEN oauth_token ELSE Unset,
   ANTHROPIC_API_KEY |-> ""]

\* the sandbox hook registered ahead of the security hook
PreToolUseHooksSwapped ==
  <<[matcher |-> "*", hook |-> "test_hook"],
    [matcher |-> "Bash", hook |-> "sandbox_bash_hook"],
    [matcher |-> "Bash", hook |-> "bash_security_hook"]>>

\* the security hook registered ahead of the diagnostic hook, the sandbox hook first
PreToolUseHooksReversed ==
  <<[matcher |-> "Bash", hook |-> "sandbox_bash_hook"],
    [matcher |-> "Bash", hook |-> "bash_security_hook"],
    [matcher |-> "*", hook |-> "test_hook"]>>

\* the sandbox hook registered for every tool
PreToolUseHooksSandboxAll ==
  <<[matcher |-> "*", hook |-> "test_hook"],
    [matcher |-> "Bash", hook |-> "bash_security_hook"],
    [matcher |-> "*", hook |-> "sandbox_bash_hook"]>>

\* lines 176-185: hooks={"PreToolUse": [...]}, in the order written
PreToolUseHooks ==
  <<[matcher |-> "*", hook |-> "test_hook"],
    [matcher |-> "Bash", hook |-> "bash_security_hook"],
    [matcher |-> "Bash", hook |-> "sandbox_bash_hook"]>>

NoTaskManagerEnv == [raised |-> "none"]

NoClient ==
  [made |-> FALSE, raised |-> "none", mcp_servers |-> {},
   task_manager_env |-> NoTaskManagerEnv, hooks |-> <<>>,
   env |-> [CLAUDE_CODE_OAUTH_TOKEN |-> Unset, ANTHROPIC_API_KEY |-> Unset],
   docker_container |-> Unset]

FailedClient(exception) == [NoClient EXCEPT !.raised = exception]

\* lines 98-191 of create_client, on the environment left by the pop and the
\* load of the agent's .env
BuildClient(env, built, project_id, docker_container, use_docker_playwright) ==
  LET api_key     == env["ANTHROPIC_API_KEY"]
      oauth_token == env["CLAUDE_CODE_OAUTH_TOKEN"]
      mcp_env     == get_mcp_env(env, project_id, docker_container)
  IN  IF Truthy(api_key) THEN FailedClient("RuntimeError")
      ELSE IF ~built THEN FailedClient("FileNotFoundError")
      ELSE IF mcp_env.raised # "none" THEN FailedClient(mcp_env.raised)
      ELSE [made |-> TRUE, raised |-> "none",
            mcp_servers |-> McpServers(docker_container, use_docker_playwright),
            task_manager_env |-> mcp_env,
            hooks |-> PreToolUseHooks,
            env |-> SdkEnv(oauth_token),
            docker_container |-> docker_container]

\* the tools the agent can name: the built-in shell and a built-in file tool,
\* the task-manager server's shell-in-container tool, an external Playwright tool
BashDockerTool == "mcp__task-manager__bash_docker"

PlaywrightTool == "mcp__playwright__browser_navigate"

Tools == {"Bash", "Read", BashDockerTool, PlaywrightTool}

\* the tools whose argument is a shell command to run
ShellTools == {"Bash", BashDockerTool}

Commands == {"npm test", "rm -rf /"}

\* which tools a client offers: bash_docker needs the container name in the
\* task-manager server's environment, the Playwright tools need their server
Offers(c, tool) ==
  /\ c.made
  /\ tool = BashDockerTool => c.task_manager_env.DOCKER_CONTAINER_NAME # Unset
  /\ tool = PlaywrightTool => "playwright" \in c.mcp_servers

\* HookMatcher(matcher=...): "*" selects every tool, a name selects that tool
Matches(matcher, tool) == matcher = "*" \/ matcher = tool

\* core.security: the blocklist of the policy evaluator
BlockedCommands == {"rm -rf /"}

\* what a hook answers on an invocation: it lets it pass, denies it, or
\* hands on a rewritten invocation
HookResult(hook, i, container) ==
  CASE hook = "test_hook" -> [outcome |-> "pass", inv |-> i]
    [] hook = "bash_security_hook" ->
         IF i.command \in BlockedCommands
           THEN [outcome |-> "deny", inv |-> i]
           ELSE [outcome |-> "pass", inv |-> i]
    [] hook = "sandbox_bash_hook" ->
         IF Truthy(container)
           THEN [outcome |-> "rewrite", inv |-> [i EXCEPT !.exec_in = container]]
           ELSE [outcome |-> "pass", inv |-> i]

NoInvocation == [tool |-> "none", command |-> "", exec_in |-> Unset]

NoExecution == [set |-> FALSE]

\* the PreToolUse entries from position k on that select the tool
MatchingFrom(c, tool, k) ==
  {i \in k..Len(c.hooks) : Matches(c.hooks[i].matcher, tool)}

\* create_client has not been called
NoCall ==
  [called |-> FALSE, docker_container |-> Unset, use_docker_playwright |-> FALSE,
   environ |-> [k \in EnvKeys |-> Unset]]

HooksIdle ==
  /\ environ = [k \in EnvKeys |-> Unset]
  /\ dotenv = [k \in EnvKeys |-> Unset]
  /\ mcpBuilt = TRUE
  /\ client = NoClient
  /\ inv = NoInvocation
  /\ hookPos = 0
  /\ ran = <<>>
  /\ decision = "none"
  /\ deniedBy = "none"
  /\ executed = NoExecution
  /\ lastCall = NoCall

RecalcIdle ==
  /\ logs = [s \in Sessions |-> [exists |-> FALSE, entries |-> <<>>]]
  /\ qc = [s \in Sessions |-> <<>>]
  /\ sessMetrics = [s \in Sessions |-> SqlNullJson]
  /\ nextId = NumSessions + 1
  /\ uniqueSid = TRUE
  /\ pc = [r \in Runs |-> "idle"]
  /\ idx = [r \in Runs |-> 0]
  /\ cur = [r \in Runs |-> NoLocals]
  /\ written = [r \in Runs |-> {}]
  /\ propagated = [r \in Runs |-> {}]
  /\ warned = [r \in Runs |-> {}]
  /\ snapshot = [s \in Sessions |-> NoSnapshot]

EnvValues(k) ==
  CASE k = "ANTHROPIC_API_KEY" -> {Unset, "", "sk-ant-app"}
    [] k = "CLAUDE_CODE_OAUTH_TOKEN" -> {Unset, "oauth-token"}
    [] k = "DATABASE_URL" -> {Unset, "postgresql://db"}

Environments ==
  {e \in [EnvKeys -> {Unset, "", "sk-ant-app", "oauth-token", "postgresql://db"}] :
     \A k \in EnvKeys : e[k] \in EnvValues(k)}

HooksInit ==
  /\ environ \in Environments
  /\ dotenv \in {e \in Environments : e["DATABASE_URL"] = Unset}
  /\ mcpBuilt \in BOOLEAN
  /\ client = NoClient
  /\ inv = NoInvocation
  /\ hookPos = 0
  /\ ran = <<>>
  /\ decision = "none"
  /\ deniedBy = "none"
  /\ executed = NoExecution
  /\ lastCall = NoCall
  /\ RecalcIdle

\* lines 58-191: create_client
CreateClient ==
  /\ decision \in {"none", "deny", "executed"}
  /\ \E project_id \in {Unset, "proj-1"}, docker_container \in {Unset, "yokeflow-sandbox-1"},
        use_docker_playwright \in BOOLEAN :
       LET popped == environ_pop(environ, "ANTHROPIC_API_KEY")
           loaded == load_dotenv(popped, dotenv)
       IN  /\ lastCall' = [called |-> TRUE, docker_container |-> docker_container,
                            use_docker_playwright |-> use_docker_playwright,
                            environ |-> environ]
           /\ environ' = loaded
           /\ client' = BuildClient(loaded, mcpBuilt, project_id, docker_container,
                                    use_docker_playwright)
  /\ inv' = NoInvocation
  /\ hookPos' = 0
  /\ ran' = <<>>
  /\ decision' = "none"
  /\ deniedBy' = "none"
  /\ executed' = NoExecution
  /\ UNCHANGED <<dotenv, mcpBuilt>>
  /\ UNCHANGED recalcVars

\* the agent asks for a tool: the invocation enters the PreToolUse chain
Invoke ==
  /\ client.made
  /\ decision \in {"none", "deny", "executed"}
  /\ \E tool \in Tools :
       /\ Offers(client, tool)
       /\ \E command \in (IF tool \in ShellTools THEN Commands ELSE {""}) :
            inv' = [tool |-> tool, command |-> command, exec_in |-> Unset]
  /\ hookPos' = 1
  /\ ran' = <<>>
  /\ decision' = "pending"
  /\ deniedBy' = "none"
  /\ executed' = NoExecution
  /\ UNCHANGED <<environ, dotenv, mcpBuilt, client, lastCall>>
  /\ UNCHANGED recalcVars

\* the next hook whose matcher selects the tool runs on the invocation; a
\* deny ends the chain
RunHook ==
  /\ decision = "pending"
  /\ MatchingFrom(client, inv.tool, hookPos) # {}
  /\ LET i == CHOOSE j \in MatchingFrom(client, inv.tool, hookPos) :
                \A o \in MatchingFrom(client, inv.tool, hookPos) : j <= o
         hook == client.hooks[i].hook
         res  == HookResult(hook, inv, client.docker_container)
     IN  /\ ran' = Append(ran, hook)
         /\ IF res.outcome = "deny"
              THEN /\ decision' = "deny"
                   /\ deniedBy' = hook
                   /\ UNCHANGED <<inv, hookPos>>
              ELSE /\ inv' = res.inv
                   /\ hookPos' = i + 1
                   /\ UNCHANGED <<decision, deniedBy>>
  /\ UNCHANGED <<environ, dotenv, mcpBuilt, client, executed, lastCall>>
  /\ UNCHANGED recalcVars

\* no hook is left and none denied: the invocation goes to its executor
Execute ==
  /\ decision = "pending"
  /\ MatchingFrom(client, inv.tool, hookPos) = {}
  /\ decision' = "executed"
  /\ executed' = [set |-> TRUE, tool |-> inv.tool, command |-> inv.command,
                  backend |-> IF inv.tool = BashDockerTool
                                THEN client.task_manager_env.DOCKER_CONTAINER_NAME
                                ELSE inv.exec_in]
  /\ UNCHANGED <<environ, dotenv, mcpBuilt, client, inv, hookPos, ran, deniedBy, lastCall>>
  /\ UNCHANGED recalcVars

\* the generated app's code puts its API key into the agent's process
LeakApiKey ==
  /\ decision \in {"none", "deny", "executed"}
  /\ environ["ANTHROPIC_API_KEY"] = Unset
  /\ environ' = [environ EXCEPT !["ANTHROPIC_API_KEY"] = "sk-ant-app"]
  /\ UNCHANGED <<dotenv, mcpBuilt, client, inv, hookPos, ran, decision, deniedBy, executed,
                 lastCall>>
  /\ UNCHANGED recalcVars

NextHooks ==
  \/ CreateClient
  \/ Invoke
  \/ RunHook
  \/ Execute
  \/ LeakApiKey

SpecHooks == HooksInit /\ [][NextHooks]_vars

\* runs one after another start from a store without a uniqueness constraint,
\* where only the script's own existence check keeps the rows unique
Init == RecalcInit /\ uniqueSid = FALSE /\ HooksIdle

\* interleaving runs start from either schema
InitConc == RecalcInit /\ uniqueSid \in BOOLEAN /\ HooksIdle

\* lines 37-71: connect, look the project up, fetch its sessions
Start(r) ==
  /\ pc[r] \in {"idle"} \cup Terminal
  /\ \E found \in BOOLEAN :
       IF found
         THEN /\ pc' = [pc EXCEPT ![r] = "loop"]
              /\ idx' = [idx EXCEPT ![r] = 1]
         ELSE /\ pc' = [pc EXCEPT ![r] = "notfound"]
              /\ idx' = [idx EXCEPT ![r] = 0]
  /\ written' = [written EXCEPT ![r] = {}]
  /\ propagated' = [propagated EXCEPT ![r] = {}]
  /\ warned' = [warned EXCEPT ![r] = {}]
  /\ UNCHANGED <<logs, qc, sessMetrics, nextId, uniqueSid, cur, snapshot>>
  /\ UNCHANGED hookVars

\* a missing log ends the function
OnMissingLogReturn == "done"

\* lines 84-86: after the warning, continue with the next session
OnMissingLog == "loop"

\* lines 74-113: the log lookup, the analysis and the existence SELECT of the
\* session at idx; line 187 once the list is exhausted
ProcessSession(r) ==
  /\ pc[r] = "loop"
  /\ IF idx[r] > NumSessions
       THEN /\ pc' = [pc EXCEPT ![r] = "done"]
            /\ UNCHANGED <<idx, cur, warned>>
       ELSE LET session == SessionsTable[idx[r]]
                log     == logs[session.id]
            IN  IF ~log.exists
                  THEN /\ warned' = [warned EXCEPT ![r] = @ \cup {session.id}]
                       /\ idx' = [idx EXCEPT ![r] = @ + 1]
                       /\ pc' = [pc EXCEPT ![r] = OnMissingLog]
                       /\ UNCHANGED cur
                  ELSE LET metrics == analyze_session_logs(log.entries)
                           issues  == quick_quality_check(metrics, session.type = "initializer")
                           rows    == qc[session.id]
                       IN  /\ cur' = [cur EXCEPT ![r] =
                                 [set |-> TRUE,
                                  session_id |-> session.id,
                                  metrics |-> metrics,
                                  rating |-> get_quality_rating(metrics),
                                  playwright_count |-> metrics.playwright_count,
                                  critical_issue_list |-> FilterIssues(issues, CriticalMarker),
                                  warning_list |-> FilterIssues(issues, WarningMarker),
                                  existing |-> IF rows = <<>> THEN 0 ELSE rows[1].id]]
                           /\ pc' = [pc EXCEPT ![r] = "write"]
                           /\ UNCHANGED <<idx, warned>>
  /\ UNCHANGED <<logs, qc, sessMetrics, nextId, uniqueSid, written, propagated,
                 snapshot>>
  /\ UNCHANGED hookVars

\* an UPDATE that adds the new count to the stored one
UpdateRowAccumulating(row, c) ==
  [row EXCEPT !.overall_rating = c.rating,
              !.playwright_count = @ + c.playwright_count,
              !.playwright_screenshot_count = c.metrics.playwright_screenshot_count,
              !.total_tool_uses = c.metrics.total_tool_uses,
              !.error_count = c.metrics.error_count,
              !.error_rate = c.metrics.error_rate,
              !.critical_issues = ToJsonb(json_dumps(c.critical_issue_list)),
              !.warnings = ToJsonb(json_dumps(c.warning_list)),
              !.metrics = ToJsonb(json_dumps(c.metrics))]

\* lines 117-142: UPDATE session_quality_checks ... WHERE session_id = $1
UpdateRow(row, c) ==
  [row EXCEPT !.overall_rating = c.rating,
              !.playwright_count = c.playwright_count,
              !.playwright_screenshot_count = c.metrics.playwright_screenshot_count,
              !.total_tool_uses = c.metrics.total_tool_uses,
              !.error_count = c.metrics.error_count,
              !.error_rate = c.metrics.error_rate,
              !.critical_issues = ToJsonb(json_dumps(c.critical_issue_list)),
              !.warnings = ToJsonb(json_dumps(c.warning_list)),
              !.metrics = ToJsonb(json_dumps(c.metrics))]

\* lines 145-171: INSERT INTO session_quality_checks ... VALUES ($1, '1.0', ...)
InsertRow(id, c) ==
  [id |-> id, session_id |-> c.session_id, check_version |-> "1.0",
   overall_rating |-> c.rating,
   playwright_count |-> c.playwright_count,
   playwright_screenshot_count |-> c.metrics.playwright_screenshot_count,
   total_tool_uses |-> c.metrics.total_tool_uses,
   error_count |-> c.metrics.error_count,
   error_rate |-> c.metrics.error_rate,
   critical_issues |-> ToJsonb(json_dumps(c.critical_issue_list)),
   warnings |-> ToJsonb(json_dumps(c.warning_list)),
   metrics |-> ToJsonb(json_dumps(c.metrics))]

\* the existence check ignored: every run inserts
TakesUpdateBranchNever(c) == FALSE

\* line 115: if existing
TakesUpdateBranch(c) == c.existing # 0

\* lines 115-171: the UPDATE or the INSERT, one statement, committed on its own
WriteQualityCheck(r) ==
  /\ pc[r] = "write"
  /\ LET c == cur[r]
         s == c.session_id
     IN  IF TakesUpdateBranch(c)
           THEN /\ qc' = [qc EXCEPT ![s] = [i \in 1..Len(@) |-> UpdateRow(@[i], c)]]
                /\ nextId' = nextId
                /\ pc' = [pc EXCEPT ![r] = "propagate"]
                /\ written' = [written EXCEPT ![r] = @ \cup {s}]
                /\ snapshot' = [snapshot EXCEPT ![s] =
                                  IF @.taken \/ qc'[s] = <<>> THEN @ ELSE Fields(qc'[s][1])]
           ELSE IF uniqueSid /\ qc[s] # <<>>
             THEN \* the INSERT violates the constraint; the exception leaves the
                  \* function through the finally block
                  /\ pc' = [pc EXCEPT ![r] = "failed"]
                  /\ UNCHANGED <<qc, nextId, written, snapshot>>
             ELSE /\ qc' = [qc EXCEPT ![s] = Append(@, InsertRow(nextId, c))]
                  /\ nextId' = nextId + 1
                  /\ pc' = [pc EXCEPT ![r] = "propagate"]
                  /\ written' = [written EXCEPT ![r] = @ \cup {s}]
                  /\ snapshot' = [snapshot EXCEPT ![s] =
                                    IF @.taken THEN @ ELSE Fields(qc'[s][1])]
  /\ UNCHANGED <<logs, sessMetrics, uniqueSid, idx, cur, propagated, warned>>
  /\ UNCHANGED hookVars

\* lines 173-185: UPDATE sessions SET metrics = jsonb_set(...) WHERE id = $2
UpdateSessionMetrics(r) ==
  /\ pc[r] = "propagate"
  /\ LET c == cur[r]
         browser_verifs == c.playwright_count
     IN  /\ sessMetrics' = [sessMetrics EXCEPT ![c.session_id] =
                              jsonb_set(@, "browser_verifications",
                                        ToJsonb(json_dumps(browser_verifs)))]
         /\ propagated' = [propagated EXCEPT ![r] = @ \cup {c.session_id}]
  /\ cur' = [cur EXCEPT ![r] = NoLocals]
  /\ idx' = [idx EXCEPT ![r] = @ + 1]
  /\ pc' = [pc EXCEPT ![r] = "loop"]
  /\ UNCHANGED <<logs, qc, nextId, uniqueSid, written, warned, snapshot>>
  /\ UNCHANGED hookVars

\* the process is stopped between two statements
Interrupt(r) ==
  /\ pc[r] \in Active
  /\ pc' = [pc EXCEPT ![r] = "killed"]
  /\ cur' = [cur EXCEPT ![r] = NoLocals]
  /\ UNCHANGED <<logs, qc, sessMetrics, nextId, uniqueSid, idx, written, propagated,
                 warned, snapshot>>
  /\ UNCHANGED hookVars

\* runs one after another: one process, started again once it has ended
Next ==
  \/ Start("run1")
  \/ ProcessSession("run1")
  \/ WriteQualityCheck("run1")
  \/ UpdateSessionMetrics("run1")

Spec == Init /\ [][Next]_vars

\* runs one after another, each of which may be stopped between two statements
NextKill ==
  \/ Next
  \/ Interrupt("run1")

SpecKill == Init /\ [][NextKill]_vars

\* two runs for the same project interleaving at their database statements
NextConc ==
  \E r \in Runs :
    \/ Start(r)
    \/ ProcessSession(r)
    \/ WriteQualityCheck(r)
    \/ UpdateSessionMetrics(r)

SpecConc == InitConc /\ [][NextConc]_vars

\* ------------------------------------------------------------------ claims

\* C1: after any sequence of runs one after another the store holds at most
\* one quality-check row per session: a run that found a row has updated that
\* row in place, and a run that found none has inserted the single row.
C1_OneRowPerSession ==
  /\ \A s \in Sessions : Len(qc[s]) <= 1
  /\ \A r \in Runs :
       pc[r] = "propagate" =>
         LET rows == qc[cur[r].session_id]
         IN  /\ Len(rows) = 1
             /\ cur[r].existing # 0 => rows[1].id = cur[r].existing
             /\ cur[r].existing = 0 => rows[1].id = nextId - 1

\* a later run has updated in place the row an earlier run inserted
C1_Witness ==
  \E r \in Runs :
    /\ pc[r] = "propagate"
    /\ cur[r].existing # 0
    /\ qc[cur[r].session_id][1].check_version = "1.0"
    /\ qc[cur[r].session_id][1].id = cur[r].existing

\* C2: when two runs interleave, no run fails and every session still ends
\* with one quality-check row.
C2_InterleavedRunsUpsert ==
  /\ \A r \in Runs : pc[r] # "failed"
  /\ \A s \in Sessions : Len(qc[s]) <= 1

\* C7: once a session's row has been written from its log, every later run
\* leaves the SessionMetrics fields of the row as the first write stored them.
C7_RecomputeIdempotent ==
  \A s \in Sessions :
    snapshot[s].taken => \A i \in 1..Len(qc[s]) : Fields(qc[s][i]) = snapshot[s]

\* a second run has rewritten, from a log with a browser action, the row the
\* first run inserted, and the fields are those of the first write
C7_Witness ==
  \E r \in Runs :
    /\ pc[r] = "propagate"
    /\ cur[r].existing # 0
    /\ cur[r].playwright_count > 0
    /\ LET s == cur[r].session_id
       IN  /\ qc[s][1].check_version = "1.0"
           /\ snapshot[s].taken
           /\ Fields(qc[s][1]) = snapshot[s]

\* C8: when a run has ended, finished or stopped, every session whose row it
\* wrote has browser_verifications equal to the row's playwright_count.
C8_ViewsAgree ==
  \A r \in Runs :
    pc[r] \in {"done", "killed"} =>
      \A s \in written[r] :
        \A i \in 1..Len(qc[s]) :
          JsonGet(sessMetrics[s], "browser_verifications") = qc[s][i].playwright_count

C10_MissingLogStillScored ==
  \A r \in Runs :
    pc[r] = "done" => \A s \in Sessions : ~logs[s].exists => s \in written[r]

\* C3: every shell command that reaches an executor was evaluated by the
\* security hook first.
C3_ShellCommandsValidated ==
  executed.set /\ executed.tool \in ShellTools =>
    \E i \in 1..Len(ran) : ran[i] = "bash_security_hook"

\* C4: the diagnostic hook runs first on every invocation and never denies,
\* and the sandbox hook runs, and rewrites, only after the security hook.
C4_HooksInRegistrationOrder ==
  /\ ran # <<>> => ran[1] = "test_hook"
  /\ decision \in {"deny", "executed"} => ran # <<>>
  /\ deniedBy # "test_hook"
  /\ \A i \in 1..Len(ran) :
       ran[i] = "sandbox_bash_hook" => \E j \in 1..(i - 1) : ran[j] = "bash_security_hook"
  /\ inv.exec_in # Unset => \E j \in 1..Len(ran) : ran[j] = "bash_security_hook"

\* a Bash command went through all three hooks and was rewritten for the container
C4_Witness ==
  /\ decision = "executed"
  /\ inv.tool = "Bash"
  /\ ran = <<"test_hook", "bash_security_hook", "sandbox_bash_hook">>
  /\ inv.exec_in # Unset

\* C5: a denied invocation is not executed, the denying hook is the last hook
\* that ran on it, and a command the security hook denied was never handed
\* to the sandbox hook.
C5_DenyShortCircuits ==
  decision = "deny" =>
    /\ ~executed.set
    /\ ran # <<>> /\ ran[Len(ran)] = deniedBy
    /\ deniedBy = "bash_security_hook" =>
         /\ \A i \in 1..Len(ran) : ran[i] # "sandbox_bash_hook"
         /\ inv.exec_in = Unset

\* the security hook denied a Bash command in a session with a container
C5_Witness ==
  /\ decision = "deny"
  /\ deniedBy = "bash_security_hook"
  /\ inv.tool = "Bash"
  /\ Truthy(client.docker_container)

C11_ExternalPlaywrightIffNoContainer ==
  client.made =>
    ("playwright" \in client.mcp_servers <=> ~Truthy(lastCall.docker_container))

\* C11: the client has no external Playwright server exactly when a docker
\* container was given and use_docker_playwright was true; with a container
\* and use_docker_playwright false the external server is configured as well.
C11_ExternalPlaywrightUnlessDockerPlaywright ==
  client.made =>
    /\ "playwright" \notin client.mcp_servers <=>
         (Truthy(lastCall.docker_container) /\ lastCall.use_docker_playwright)
    /\ "task-manager" \in client.mcp_servers

\* a client for a container session that runs Playwright in the container
C11_Witness ==
  /\ client.made
  /\ Truthy(lastCall.docker_container)
  /\ lastCall.use_docker_playwright
  /\ client.mcp_servers = {"task-manager"}

\* C12: every quality-check row of a session a finished run has written
\* carries the version tag '1.0'.
C12_RowsCarryVersionTag ==
  \A r \in Runs :
    pc[r] = "done" =>
      \A s \in written[r] : \A i \in 1..Len(qc[s]) : qc[s][i].check_version = "1.0"

\* how often a finding occurs in a stored list
Occurrences(list, finding) == Cardinality({k \in 1..Len(list) : list[k] = finding})

\* whether the findings of a stored list occur in it in the order they have
\* among the findings produced
KeepsOrder(list, issues) ==
  \A i, j \in 1..Len(list) :
    i < j => \E a, b \in 1..Len(issues) : a < b /\ issues[a] = list[i] /\ issues[b] = list[j]

OAuthFound ==
  IF lastCall.environ["CLAUDE_CODE_OAUTH_TOKEN"] # Unset
    THEN Truthy(lastCall.environ["CLAUDE_CODE_OAUTH_TOKEN"])
    ELSE Truthy(dotenv["CLAUDE_CODE_OAUTH_TOKEN"])

\* C14: once create_client has been called, it raised RuntimeError exactly
\* when the agent's .env sets a non-empty ANTHROPIC_API_KEY, whatever key the
\* process environment held before the call, and then no client was
\* returned; a returned client has ANTHROPIC_API_KEY set to the empty string
\* in its subprocess environment and CLAUDE_CODE_OAUTH_TOKEN there exactly
\* when an OAuth token was found.
C14_NoApiKeyReachesAgent ==
  lastCall.called =>
    /\ client.raised = "RuntimeError" <=> Truthy(dotenv["ANTHROPIC_API_KEY"])
    /\ client.raised # "none" => ~client.made
    /\ client.made =>
         /\ client.env.ANTHROPIC_API_KEY = ""
         /\ client.env.CLAUDE_CODE_OAUTH_TOKEN # Unset <=> OAuthFound
         /\ OAuthFound =>
              client.env.CLAUDE_CODE_OAUTH_TOKEN \in
                {lastCall.environ["CLAUDE_CODE_OAUTH_TOKEN"], dotenv["CLAUDE_CODE_OAUTH_TOKEN"]}

\* a client was returned although the process held an API key before the call
C14_Witness ==
  /\ lastCall.called
  /\ Truthy(lastCall.environ["ANTHROPIC_API_KEY"])
  /\ client.made
  /\ client.env.ANTHROPIC_API_KEY = ""

====
